---- MODULE Spec2Model ----
(***************************************************************************)
(* Model of src/synthetic_data.py: the three synthetic data generators    *)
(* generate_match_events, generate_deploy_events and generate_incidents,  *)
(* driven by an external caller.                                           *)
(*                                                                         *)
(* Units.  Timestamps are minutes since a Monday 00:00.  Traffic           *)
(* multipliers and match intensities are tenths (1.7 is 17).  Values       *)
(* compared with np.random.rand() -- window probabilities, base_crit and   *)
(* the incident probability p -- are thousandths (0.010 is 10).  Poisson   *)
(* rates of base_rate are hundredths (0.08 is 8); the load-incident rate   *)
(* 0.03 * intensity is thousandths.                                        *)
(***************************************************************************)
EXTENDS Integers, Sequences, FiniteSets, TLC

VARIABLES pc, hours, i, rows, lam, deploys_df, matches_df, piped,
          hourly_match, j, k, dep, ret

vars == <<pc, hours, i, rows, lam, deploys_df, matches_df, piped,
          hourly_match, j, k, dep, ret>>

----------------------------------------------------------------------------
(* Bounds of the model.                                                    *)

\* the hourly grid of a generator call has at most MaxSpan + 1 hours
MaxSpan == 1
\* a run is followed only while its row list has at most MaxRows rows
MaxRows == 2
\* a deploy table the caller makes itself has at most MaxDeployInput rows
MaxDeployInput == 1
\* a match table the caller makes itself has at most MaxMatchInput rows
MaxMatchInput == 1

\* the values np.random.rand() is taken to return, in thousandths of [0, 1)
RandDraws == {0, 100, 700, 999}
\* deviation of np.random.normal(base, 0.20) from base, in tenths
NormalDevs == {-15, 0, 15}
\* the values np.random.poisson(rate) is taken to return for a rate above 0
PoissonCounts == {0, 1, 2}
\* the values np.random.randint(0, 60) is taken to return
MinuteDraws == {0, 59}
\* start hours of the date ranges: every hour of one week
WeekHours == 0..167
\* starts of the longer date ranges: Wednesday 19:00 and Sunday 23:00 (the
\* range then runs into the next Monday)
RangeStarts == {(2 * 24 + 19) * 60, (6 * 24 + 23) * 60}
\* hours of the caller's match rows, relative to the hour of its deploys
MatchOffsets == {-3, -2, 0, 2}
\* traffic multipliers of the caller's match rows, in tenths
MatchMults == {10, 20, 25}

----------------------------------------------------------------------------
(* Timestamps.                                                             *)

dayofweek(ts) == (ts \div 1440) % 7

hour_of(ts) == (ts \div 60) % 24

floor_h(ts) == ts - (ts % 60)

\* pd.date_range(start, end, freq="h"): start, start + 1h, ... up to end
\* inclusive; empty when end is before start
_hours_between(start_date, end_date) ==
    IF end_date < start_date THEN <<>>
    ELSE [n \in 1..((end_date - start_date) \div 60 + 1) |->
            start_date + (n - 1) * 60]

\* a clip that forgets the upper limit
BadClip(x, lo, hi) == IF x < lo THEN lo ELSE x

\* np.clip(x, lo, hi)

Clip(x, lo, hi) == IF x < lo THEN lo ELSE IF x > hi THEN hi ELSE x

Min(a, b) == IF a < b THEN a ELSE b

Max(a, b) == IF a > b THEN a ELSE b

----------------------------------------------------------------------------
(* pd.DataFrame(rows).sort_values("timestamp").reset_index(drop=True)      *)

\* insertion of one row behind the rows that are not later than it (the
\* sort of a short column is an insertion sort, which keeps ties in order)
Insert(sorted, r) ==
    LET n == Cardinality({x \in 1..Len(sorted) :
                            sorted[x].timestamp <= r.timestamp})
    IN SubSeq(sorted, 1, n) \o <<r>> \o SubSeq(sorted, n + 1, Len(sorted))

RECURSIVE SortFrom(_, _)
SortFrom(df, n) ==
    IF n = 0 THEN <<>> ELSE Insert(SortFrom(df, n - 1), df[n])

\* a return that forgets to sort
BadSortValues(df) == df

sort_values(df) == SortFrom(df, Len(df))

\* a DataFrame built from an empty list of rows has no columns at all, and
\* sort_values("timestamp") raises KeyError on it
ReturnFrame(f, rs) ==
    IF rs = <<>>
    THEN [fn |-> f, status |-> "KeyError", table |-> <<>>]
    ELSE [fn |-> f, status |-> "ok", table |-> sort_values(rs)]

NoReturn == [fn |-> "none", status |-> "none", table |-> <<>>]

----------------------------------------------------------------------------
(* generate_match_events                                                   *)

windows ==
    << [name |-> "Brasileirao", days |-> {2, 3}, hours |-> 19..21,
        base |-> 17, prob |-> 800],
       [name |-> "Champions League", days |-> {2}, hours |-> 15..21,
        base |-> 21, prob |-> 650],
       [name |-> "Europa League", days |-> {3}, hours |-> 15..21,
        base |-> 18, prob |-> 600],
       [name |-> "Libertadores", days |-> {2, 3}, hours |-> 19..21,
        base |-> 19, prob |-> 750],
       [name |-> "Weekend matches", days |-> {5, 6}, hours |-> 16..20,
        base |-> 20, prob |-> 850] >>

\* the row one window appends for the hour ts, given the two draws
MatchDraw(ts, cfg, u, z) ==
    IF u < cfg.prob
    THEN << [timestamp |-> ts, tournament |-> cfg.name,
             traffic_multiplier |-> Clip(cfg.base + z, 10, 32)] >>
    ELSE <<>>

\* the row lists the inner loop over windows n, n+1, ... can append for ts
RECURSIVE MatchHourRuns(_, _)
MatchHourRuns(ts, n) ==
    IF n > Len(windows) THEN {<<>>}
    ELSE LET cfg == windows[n]
             here == IF dayofweek(ts) \in cfg.days /\ hour_of(ts) \in cfg.hours
                     THEN {MatchDraw(ts, cfg, u, z) :
                             u \in RandDraws, z \in NormalDevs}
                     ELSE {<<>>}
         IN {a \o b : a \in here, b \in MatchHourRuns(ts, n + 1)}

----------------------------------------------------------------------------
(* generate_deploy_events                                                  *)

\* the 16-18h band read with an inclusive upper end
BadBaseRate(dow, hour) ==
    IF dow <= 3 /\ 16 <= hour /\ hour <= 18 THEN 170
    ELSE IF dow <= 3 /\ 9 <= hour /\ hour < 12 THEN 90
    ELSE IF dow <= 3 /\ 12 <= hour /\ hour < 16 THEN 110
    ELSE IF dow <= 3 /\ 18 <= hour /\ hour < 22 THEN 70
    ELSE IF dow <= 3 THEN 8
    ELSE IF dow = 4 /\ 10 <= hour /\ hour < 15 THEN 55
    ELSE IF dow = 4 /\ 15 <= hour /\ hour < 17 THEN 100
    ELSE IF dow = 4 /\ 17 <= hour /\ hour < 20 THEN 45
    ELSE IF dow = 4 THEN 6
    ELSE 3

base_rate(dow, hour) ==
    IF dow <= 3
    THEN IF 9 <= hour /\ hour < 12 THEN 90
         ELSE IF 12 <= hour /\ hour < 16 THEN 110
         ELSE IF 16 <= hour /\ hour < 18 THEN 170
         ELSE IF 18 <= hour /\ hour < 22 THEN 70
         ELSE 8
    ELSE IF dow = 4
    THEN IF 10 <= hour /\ hour < 15 THEN 55
         ELSE IF 15 <= hour /\ hour < 17 THEN 100
         ELSE IF 17 <= hour /\ hour < 20 THEN 45
         ELSE 6
    ELSE 3

\* np.random.poisson(rate): any count when the rate is positive, 0 when it is 0
PoissonDraws(rate) == IF rate > 0 THEN PoissonCounts ELSE {0}

base_crit(dow, hour) ==
    LET c0 == 70
        c1 == IF dow >= 5 THEN 220 ELSE c0
    IN IF dow = 4 /\ 15 <= hour /\ hour <= 18 THEN c1 + 100 ELSE c1

\* one size distribution for critical and routine deploys alike
BadSizeChoices(is_critical_fix) == {"small", "medium", "large"}

\* np.random.choice over the sizes of positive probability
SizeChoices(is_critical_fix) ==
    IF is_critical_fix THEN {"small", "medium"}
    ELSE {"small", "medium", "large"}

\* the rows one pass of the inner loop can append for the hour hour_ts
DeployDraw(hour_ts) ==
    LET dow == dayofweek(hour_ts)
        hour == hour_of(hour_ts)
    IN UNION {
         { [timestamp |-> hour_ts + minute,
            is_critical_fix |-> (u < base_crit(dow, hour)),
            deploy_size |-> s] : s \in SizeChoices(u < base_crit(dow, hour)) }
         : minute \in MinuteDraws, u \in RandDraws }

\* the row lists n passes of the inner loop can append
RECURSIVE DeployHourRuns(_, _)
DeployHourRuns(hour_ts, n) ==
    IF n = 0 THEN {<<>>}
    ELSE {<<r>> \o rest : r \in DeployDraw(hour_ts),
                          rest \in DeployHourRuns(hour_ts, n - 1)}

----------------------------------------------------------------------------
(* generate_incidents                                                      *)

Range(s) == {s[x] : x \in DOMAIN s}

\* the smallest first: sort_index() of the grouped hours
RECURSIVE SortedHours(_)
SortedHours(S) ==
    IF S = {} THEN <<>>
    ELSE LET mn == CHOOSE x \in S : \A y \in S : x <= y
         IN <<mn>> \o SortedHours(S \ {mn})

\* sum of traffic_multiplier over the first n rows whose floored hour is h
RECURSIVE GroupSum(_, _, _)
GroupSum(df, h, n) ==
    IF n = 0 THEN 0
    ELSE GroupSum(df, h, n - 1)
         + (IF floor_h(df[n].timestamp) = h THEN df[n].traffic_multiplier ELSE 0)

\* the sparse hour -> summed intensity mapping, ascending by hour
HourlyMatch(df) ==
    IF df = <<>> THEN <<>>
    ELSE LET idx == SortedHours({floor_h(df[x].timestamp) : x \in DOMAIN df})
         IN [n \in DOMAIN idx |->
               [hour |-> idx[n], intensity |-> GroupSum(df, idx[n], Len(df))]]

\* hourly_match.reindex(near_hours, fill_value=0.0)
reindex(hm, near_hours) ==
    [n \in DOMAIN near_hours |->
       IF \E x \in DOMAIN hm : hm[x].hour = near_hours[n]
       THEN hm[CHOOSE x \in DOMAIN hm : hm[x].hour = near_hours[n]].intensity
       ELSE 0]

SeqMax(s) == CHOOSE v \in Range(s) : \A w \in Range(s) : w <= v

\* a window of one hour either side
BadNearHours(hour_ts) == _hours_between(hour_ts - 60, hour_ts + 60)

near_hours_of(hour_ts) == _hours_between(hour_ts - 2 * 60, hour_ts + 2 * 60)

near_match_intensity(hm, ts) ==
    SeqMax(reindex(hm, near_hours_of(floor_h(ts))))

\* the 16-18h band read with an exclusive upper end
BadIncidentP(d, near) ==
    LET ts == d.timestamp
        dow == dayofweek(ts)
        hour == hour_of(ts)
    IN Clip(10 + (IF 16 <= hour /\ hour < 18 THEN 40 ELSE 0)
               + (IF dow \in {2, 3} THEN 10 ELSE 0)
               + (IF dow = 4 /\ 15 <= hour /\ hour <= 18 THEN 25 ELSE 0)
               + (IF d.is_critical_fix THEN 20 ELSE 0)
               + (IF d.deploy_size = "large" THEN 30
                  ELSE IF d.deploy_size = "medium" THEN 15 ELSE 0)
               + Min(80, near * 2), 0, 950)

\* the probability p of one deploy row, before the draw
incident_p(d, near) ==
    LET ts == d.timestamp
        dow == dayofweek(ts)
        hour == hour_of(ts)
        p0 == 10
        p1 == IF 16 <= hour /\ hour <= 18 THEN p0 + 40 ELSE p0
        p2 == IF dow \in {2, 3} THEN p1 + 10 ELSE p1
        p3 == IF dow = 4 /\ 15 <= hour /\ hour <= 18 THEN p2 + 25 ELSE p2
        p4 == IF d.is_critical_fix THEN p3 + 20 ELSE p3
        p5 == IF d.deploy_size = "large" THEN p4 + 30
              ELSE IF d.deploy_size = "medium" THEN p4 + 15 ELSE p4
        p6 == p5 + Min(80, near * 2)
    IN Clip(p6, 0, 950)

\* thresholds compared with > instead of >=
BadDeploySeverity(p) ==
    IF p > 120 THEN "high" ELSE IF p > 70 THEN "medium" ELSE "low"

deploy_severity(p) ==
    IF p >= 120 THEN "high" ELSE IF p >= 70 THEN "medium" ELSE "low"

load_severity(intensity) ==
    IF intensity >= 45 THEN "high"
    ELSE IF intensity >= 30 THEN "medium" ELSE "low"

\* lam = max(0.0, 0.03 * intensity), in thousandths
load_rate(intensity) == Max(0, 3 * intensity)

\* a minute offset drawn from 0..60, so that it can leave the hour
RECURSIVE BadLoadRuns(_, _, _)
BadLoadRuns(hour_ts, intensity, n) ==
    IF n = 0 THEN {<<>>}
    ELSE {<< [timestamp |-> hour_ts + minute,
              incident_type |-> "load_incident",
              severity |-> load_severity(intensity)] >> \o rest :
            minute \in MinuteDraws \cup {60},
            rest \in BadLoadRuns(hour_ts, intensity, n - 1)}

\* the row lists n passes of the load_incident loop can append
RECURSIVE LoadRuns(_, _, _)
LoadRuns(hour_ts, intensity, n) ==
    IF n = 0 THEN {<<>>}
    ELSE {<< [timestamp |-> hour_ts + minute,
              incident_type |-> "load_incident",
              severity |-> load_severity(intensity)] >> \o rest :
            minute \in MinuteDraws, rest \in LoadRuns(hour_ts, intensity, n - 1)}

----------------------------------------------------------------------------
(* The caller and the two range generators.                                *)
(*                                                                         *)
(* The functions share no state; a run of the model is one caller that     *)
(* calls at most one of the two range generators and then, at most once,   *)
(* generate_incidents.  lam and dep record what the loops last computed:   *)
(* the Poisson rate of the hour, and the row, intensity and p of the       *)
(* deploy.  piped says that deploys_df is what generate_deploy_events      *)
(* returned.                                                               *)

NoRate == [dow |-> -1, hour |-> -1, rate |-> 0]

NoDep == [row |-> <<>>, near |-> 0, p |-> 0, emitted |-> FALSE]

Init ==
    /\ pc = "idle"
    /\ hours = <<>>
    /\ i = 0
    /\ rows = <<>>
    /\ lam = NoRate
    /\ deploys_df = <<>>
    /\ matches_df = <<>>
    /\ piped = FALSE
    /\ hourly_match = <<>>
    /\ j = 0
    /\ k = 0
    /\ dep = NoDep
    /\ ret = NoReturn

\* the date ranges the caller passes: for every hour of the week the range
\* of that one hour and the range that ends one hour before it starts, and
\* from each of RangeStarts the ranges of 2 to MaxSpan + 1 hours
DateRanges ==
    {<<h * 60, h * 60 + d * 60>> : h \in WeekHours, d \in {-1, 0}}
    \cup {<<a, a + d * 60>> : a \in RangeStarts, d \in 1..MaxSpan}

\* generate_match_events(start_date, end_date), up to the loop
MatchCall ==
    /\ pc = "idle"
    /\ ret = NoReturn
    /\ \E dr \in DateRanges :
         hours' = _hours_between(dr[1], dr[2])
    /\ pc' = "match"
    /\ i' = 1
    /\ rows' = <<>>
    /\ UNCHANGED <<lam, deploys_df, matches_df, piped, hourly_match, j, k,
                   dep, ret>>

\* one pass of "for ts in hours" of generate_match_events
MatchHour ==
    /\ pc = "match"
    /\ i <= Len(hours)
    /\ \E new \in MatchHourRuns(hours[i], 1) :
         /\ Len(rows) + Len(new) <= MaxRows
         /\ rows' = rows \o new
    /\ i' = i + 1
    /\ UNCHANGED <<pc, hours, lam, deploys_df, matches_df, piped,
                   hourly_match, j, k, dep, ret>>

\* the return statement of generate_match_events
MatchReturn ==
    /\ pc = "match"
    /\ i > Len(hours)
    /\ ret' = ReturnFrame("generate_match_events", rows)
    /\ pc' = "idle"
    /\ UNCHANGED <<hours, i, rows, lam, deploys_df, matches_df, piped,
                   hourly_match, j, k, dep>>

\* generate_deploy_events(start_date, end_date), up to the loop
DeployCall ==
    /\ pc = "idle"
    /\ ret = NoReturn
    /\ \E dr \in DateRanges :
         hours' = _hours_between(dr[1], dr[2])
    /\ pc' = "deploy"
    /\ i' = 1
    /\ rows' = <<>>
    /\ UNCHANGED <<lam, deploys_df, matches_df, piped, hourly_match, j, k,
                   dep, ret>>

\* one pass of "for hour_ts in hours" of generate_deploy_events
DeployHour ==
    /\ pc = "deploy"
    /\ i <= Len(hours)
    /\ LET hour_ts == hours[i]
           dow == dayofweek(hour_ts)
           hour == hour_of(hour_ts)
           rate == base_rate(dow, hour)
       IN /\ lam' = [dow |-> dow, hour |-> hour, rate |-> rate]
          /\ \E n_deploys \in PoissonDraws(rate) :
               /\ Len(rows) + n_deploys <= MaxRows
               /\ \E new \in DeployHourRuns(hour_ts, n_deploys) :
                    rows' = rows \o new
    /\ i' = i + 1
    /\ UNCHANGED <<pc, hours, deploys_df, matches_df, piped, hourly_match,
                   j, k, dep, ret>>

\* the return statement of generate_deploy_events
DeployReturn ==
    /\ pc = "deploy"
    /\ i > Len(hours)
    /\ ret' = ReturnFrame("generate_deploy_events", rows)
    /\ pc' = "idle"
    /\ UNCHANGED <<hours, i, rows, lam, deploys_df, matches_df, piped,
                   hourly_match, j, k, dep>>

----------------------------------------------------------------------------
(* Input tables the caller builds itself.                                  *)

\* Wednesday 17:00, the hour of the deploys the caller makes up
Anchor == (2 * 24 + 17) * 60

\* (is_critical_fix, deploy_size) of the deploys the caller makes up; a
\* critical large deploy is one generate_deploy_events never emits
HandKinds == {<<TRUE, "large">>, <<TRUE, "small">>}

\* deploy rows in the hour a
HandDeployRows(a) ==
    {[timestamp |-> a + minute, is_critical_fix |-> kind[1],
      deploy_size |-> kind[2]] : minute \in MinuteDraws, kind \in HandKinds}

\* every sequence over S of length at most n
RECURSIVE SeqsUpTo(_, _)
SeqsUpTo(S, n) ==
    IF n = 0 THEN {<<>>}
    ELSE LET shorter == SeqsUpTo(S, n - 1)
         IN shorter \cup {<<r>> \o t : r \in S, t \in {q \in shorter : Len(q) = n - 1}}

\* deploy tables of the caller's making, in any row order
HandDeploys == SeqsUpTo(HandDeployRows(Anchor), MaxDeployInput)

HandMatchRows ==
    {[timestamp |-> Anchor + o * 60, tournament |-> "Libertadores",
      traffic_multiplier |-> m] : o \in MatchOffsets, m \in MatchMults}

\* match tables of the caller's making, sorted by timestamp as a table of
\* matches is
HandMatches ==
    {t \in SeqsUpTo(HandMatchRows, MaxMatchInput) :
        \A x \in 1..(Len(t) - 1) :
           \/ t[x].timestamp < t[x + 1].timestamp
           \/ /\ t[x].timestamp = t[x + 1].timestamp
              /\ t[x].traffic_multiplier <= t[x + 1].traffic_multiplier}

\* the (deploys_df, matches_df) pairs the caller passes to generate_incidents,
\* each with the flag "deploys_df is what generate_deploy_events returned":
\* that table with no match at all; the table generate_match_events returned
\* with small routine deploys at the end of the hour of its first row; or two
\* tables of its own making
IncidentArgs ==
    IF ret.fn = "generate_deploy_events" /\ ret.status = "ok"
    THEN {<<ret.table, <<>>, TRUE>>}
    ELSE IF ret.fn = "generate_match_events" /\ ret.status = "ok"
    THEN {<<d, ret.table, FALSE>> :
            d \in SeqsUpTo({[timestamp |-> floor_h(ret.table[1].timestamp) + 59,
                              is_critical_fix |-> FALSE,
                              deploy_size |-> "small"]}, MaxDeployInput)}
    ELSE IF ret = NoReturn
    THEN HandDeploys \X HandMatches \X {FALSE}
    ELSE {}

\* generate_incidents(deploys_df, matches_df), up to the first loop
IncCall ==
    /\ pc = "idle"
    /\ \E a \in IncidentArgs :
         /\ deploys_df' = a[1]
         /\ matches_df' = a[2]
         /\ piped' = a[3]
         /\ hourly_match' = HourlyMatch(a[2])
    /\ pc' = "incidents"
    /\ rows' = <<>>
    /\ j' = 1
    /\ k' = 1
    /\ dep' = NoDep
    /\ UNCHANGED <<hours, i, lam, ret>>

\* one pass of "for _, dep in deploys_df.iterrows()"
IncDeploy ==
    /\ pc = "incidents"
    /\ j <= Len(deploys_df)
    /\ LET d == deploys_df[j]
           near == near_match_intensity(hourly_match, d.timestamp)
           p == incident_p(d, near)
       IN \E u \in RandDraws :
            /\ rows' = IF u < p
                       THEN Append(rows, [timestamp |-> d.timestamp,
                                          incident_type |-> "deploy_incident",
                                          severity |-> deploy_severity(p)])
                       ELSE rows
            /\ dep' = [row |-> d, near |-> near, p |-> p, emitted |-> (u < p)]
    /\ j' = j + 1
    /\ UNCHANGED <<pc, hours, i, lam, deploys_df, matches_df, piped,
                   hourly_match, k, ret>>

\* one pass of "for hour_ts, intensity in hourly_match.items()"
IncLoad ==
    /\ pc = "incidents"
    /\ j > Len(deploys_df)
    /\ k <= Len(hourly_match)
    /\ LET hour_ts == hourly_match[k].hour
           intensity == hourly_match[k].intensity
       IN \E n_load \in PoissonDraws(load_rate(intensity)) :
            /\ Len(rows) + n_load <= MaxRows
            /\ \E new \in LoadRuns(hour_ts, intensity, n_load) :
                 rows' = rows \o new
    /\ k' = k + 1
    /\ UNCHANGED <<pc, hours, i, lam, deploys_df, matches_df, piped,
                   hourly_match, j, dep, ret>>

\* the return statement of generate_incidents
IncReturn ==
    /\ pc = "incidents"
    /\ j > Len(deploys_df)
    /\ k > Len(hourly_match)
    /\ ret' = ReturnFrame("generate_incidents", rows)
    /\ pc' = "done"
    /\ UNCHANGED <<hours, i, rows, lam, deploys_df, matches_df, piped,
                   hourly_match, j, k, dep>>

Next ==
    \/ IncCall
    \/ IncDeploy
    \/ IncLoad
    \/ IncReturn
    \/ MatchCall
    \/ MatchHour
    \/ MatchReturn
    \/ DeployCall
    \/ DeployHour
    \/ DeployReturn

Spec == Init /\ [][Next]_vars

----------------------------------------------------------------------------
(* Properties.                                                             *)

IsSorted(t) ==
    \A x \in 1..(Len(t) - 1) : t[x].timestamp <= t[x + 1].timestamp

Generators == {"generate_match_events", "generate_deploy_events"}

Returned(f) == ret.fn = f /\ ret.status = "ok"

\* the rows built so far and, once generate_incidents has returned, its table
IncidentRows ==
    IF pc \in {"incidents", "done"}
    THEN Range(rows) \cup (IF ret.fn = "generate_incidents" THEN Range(ret.table) ELSE {})
    ELSE {}

\* number of rows of t with the timestamp ts that satisfy the test
CountAt(t, ts, Test(_)) ==
    Cardinality({x \in DOMAIN t : t[x].timestamp = ts /\ Test(t[x])})

IsDeployIncident(r) == r.incident_type = "deploy_incident"

IsLoadIncident(r) == r.incident_type = "load_incident"

AnyRow(r) == TRUE

\* C1: when the hourly grid has no hours, generate_match_events and
\* generate_deploy_events return an empty table and signal no error.
C1_EmptyGridGivesEmptyTable ==
    (ret.fn \in Generators /\ hours = <<>>)
        => (ret.status = "ok" /\ ret.table = <<>>)

\* C2: generate_incidents has no error outcome: whatever its inputs and
\* draws it returns a table, the empty one when no row was produced.
C2_IncidentsAlwaysReturnsTable ==
    ret.fn = "generate_incidents"
        => (ret.status = "ok" /\ (rows = <<>> => ret.table = <<>>))

\* C3: every table a generator returns has non-decreasing timestamps.
C3_ReturnedTablesSorted ==
    ret.status = "ok" => IsSorted(ret.table)

\* generate_incidents returned a table in which a load incident and a deploy
\* incident of the same hour had to change places
C3_Witness ==
    /\ Returned("generate_incidents")
    /\ \E x \in 1..(Len(rows) - 1) :
         /\ rows[x].timestamp > rows[x + 1].timestamp
         /\ floor_h(rows[x].timestamp) = floor_h(rows[x + 1].timestamp)
         /\ IsDeployIncident(rows[x])
         /\ IsLoadIncident(rows[x + 1])

\* C4: every emitted row has its fields in the fixed domains: multiplier in
\* [1.0, 3.2], deploy_size in {small, medium, large}, severity in {low,
\* medium, high}, incident_type in {deploy_incident, load_incident}.
C4_FieldDomains ==
    /\ (pc = "match" \/ ret.fn = "generate_match_events") =>
          \A r \in (IF pc = "match" THEN Range(rows) ELSE {}) \cup
                   (IF ret.fn = "generate_match_events" THEN Range(ret.table) ELSE {}) :
             10 <= r.traffic_multiplier /\ r.traffic_multiplier <= 32
    /\ (pc = "deploy" \/ ret.fn = "generate_deploy_events") =>
          \A r \in (IF pc = "deploy" THEN Range(rows) ELSE {}) \cup
                   (IF ret.fn = "generate_deploy_events" THEN Range(ret.table) ELSE {}) :
             r.deploy_size \in {"small", "medium", "large"}
    /\ \A r \in IncidentRows :
          /\ r.severity \in {"low", "medium", "high"}
          /\ r.incident_type \in {"deploy_incident", "load_incident"}

\* a returned match table with one multiplier clipped at each end
C4_Witness ==
    /\ Returned("generate_match_events")
    /\ \E x, y \in DOMAIN ret.table :
         /\ ret.table[x].traffic_multiplier = 10
         /\ ret.table[y].traffic_multiplier = 32

\* C5: every deploy_incident has the timestamp of an input deploy row, each
\* deploy row yields at most one; every load_incident lies in an hour that
\* holds a match row; no deploys give no deploy_incident, no matches give no
\* load_incident and a nearby match intensity of 0.
C5_IncidentsTraceToSources ==
    /\ \A r \in IncidentRows :
          /\ IsDeployIncident(r) =>
                \E y \in DOMAIN deploys_df : deploys_df[y].timestamp = r.timestamp
          /\ IsLoadIncident(r) =>
                \E y \in DOMAIN matches_df :
                   floor_h(matches_df[y].timestamp) = floor_h(r.timestamp)
    /\ pc \in {"incidents", "done"} =>
          /\ \A x \in DOMAIN rows :
                CountAt(rows, rows[x].timestamp, IsDeployIncident)
                   <= CountAt(deploys_df, rows[x].timestamp, AnyRow)
          /\ Cardinality({x \in DOMAIN rows : IsDeployIncident(rows[x])}) <= j - 1
          /\ deploys_df = <<>> => \A r \in IncidentRows : ~IsDeployIncident(r)
          /\ matches_df = <<>> =>
                /\ \A r \in IncidentRows : ~IsLoadIncident(r)
                /\ dep.near = 0

\* a returned incident table with a deploy incident and a load incident
C5_Witness ==
    /\ Returned("generate_incidents")
    /\ \E x, y \in DOMAIN ret.table :
         /\ IsDeployIncident(ret.table[x])
         /\ IsLoadIncident(ret.table[y])

\* the rate table as the specification words it
ClaimedRate(dow, hour) ==
    CASE dow \in 0..3 /\ hour \in 9..11 -> 90
      [] dow \in 0..3 /\ hour \in 12..15 -> 110
      [] dow \in 0..3 /\ hour \in 16..17 -> 170
      [] dow \in 0..3 /\ hour \in 18..21 -> 70
      [] dow \in 0..3 /\ hour \in (0..8) \cup {22, 23} -> 8
      [] dow = 4 /\ hour \in 10..14 -> 55
      [] dow = 4 /\ hour \in 15..16 -> 100
      [] dow = 4 /\ hour \in 17..19 -> 45
      [] dow = 4 /\ hour \in (0..9) \cup (20..23) -> 6
      [] dow \in {5, 6} -> 3

\* C6: the Poisson rate generate_deploy_events uses for an hour is the one
\* the lookup table gives for its day of week and hour of day; Monday 17:00
\* uses 1.7.
C6_RateTable ==
    (pc = "deploy" /\ i > 1) =>
        /\ lam.dow = dayofweek(hours[i - 1])
        /\ lam.hour = hour_of(hours[i - 1])
        /\ lam.dow \in 0..6 /\ lam.hour \in 0..23
        /\ lam.rate = ClaimedRate(lam.dow, lam.hour)
        /\ (lam.dow = 0 /\ lam.hour = 17) => lam.rate = 170

\* the loop of generate_deploy_events has just handled Monday 17:00
C6_Witness ==
    pc = "deploy" /\ i > 1 /\ lam.dow = 0 /\ lam.hour = 17 /\ lam.rate = 170

\* a pass of the deploy loop has run and the load loop has not started: dep
\* holds the row that pass handled, with the intensity and the p it computed
JustHandled == pc = "incidents" /\ k = 1 /\ dep # NoDep

\* the probability as the specification words it, with the days of the
\* +0.010 term left open
ClaimedP(d, near, days) ==
    LET dow == dayofweek(d.timestamp)
        hour == hour_of(d.timestamp)
        sum == 10
               + (IF hour \in 16..18 THEN 40 ELSE 0)
               + (IF dow \in days THEN 10 ELSE 0)
               + (IF dow = 4 /\ hour \in 15..18 THEN 25 ELSE 0)
               + (IF d.is_critical_fix THEN 20 ELSE 0)
               + (CASE d.deploy_size = "large" -> 30
                    [] d.deploy_size = "medium" -> 15
                    [] OTHER -> 0)
               + (IF near * 2 < 80 THEN near * 2 ELSE 80)
    IN IF sum < 0 THEN 0 ELSE IF sum > 950 THEN 950 ELSE sum

\* C7 as stated: the +0.010 term applies on Tuesday and Wednesday.
C7_ProbabilityTueWed ==
    JustHandled => dep.p = ClaimedP(dep.row, dep.near, {1, 2})

\* C7 as amended: the +0.010 term applies on Wednesday and Thursday
\* (dayofweek 2 and 3, Monday being 0); every other term is as stated.
C7_ProbabilityWedThu ==
    JustHandled => dep.p = ClaimedP(dep.row, dep.near, {2, 3})

\* a small routine deploy on a Thursday evening with the match term at its
\* cap: 0.010 + 0.010 + 0.08
C7_Witness ==
    /\ JustHandled
    /\ dayofweek(dep.row.timestamp) = 3
    /\ dep.near > 40
    /\ dep.p = 100

\* summed multiplier of the rows of m whose floored hour is h
RECURSIVE SumOfRows(_, _)
SumOfRows(m, X) ==
    IF X = {} THEN 0
    ELSE LET x == CHOOSE y \in X : TRUE
         IN m[x].traffic_multiplier + SumOfRows(m, X \ {x})

HourSum(m, h) == SumOfRows(m, {x \in DOMAIN m : floor_h(m[x].timestamp) = h})

\* the largest per-hour sum over the five hours around the deploy's hour
ClaimedNear(d, m) ==
    LET H == floor_h(d.timestamp)
        sums == {HourSum(m, H + o * 60) : o \in -2..2}
    IN CHOOSE v \in sums : \A w \in sums : w <= v

\* the match rows at most 2 hours from the deploy's hour
Within2h(d, m) ==
    LET H == floor_h(d.timestamp)
        Near(r) == floor_h(r.timestamp) \in {H + o * 60 : o \in -2..2}
    IN SelectSeq(m, Near)

\* C8: nearby_match_intensity is the maximum over the five hours from 2
\* before to 2 after the deploy's hour of the per-hour summed multiplier,
\* hours without match row counting 0; rows 3 or more hours away do not
\* change it.
C8_NearbyIntensity ==
    JustHandled =>
        /\ dep.near = ClaimedNear(dep.row, matches_df)
        /\ dep.near = near_match_intensity(HourlyMatch(Within2h(dep.row, matches_df)),
                                           dep.row.timestamp)

\* two match rows of the deploy's hour contribute their sum
C8_Witness ==
    /\ JustHandled
    /\ \E x, y \in DOMAIN matches_df :
         /\ x # y
         /\ floor_h(matches_df[x].timestamp) = floor_h(dep.row.timestamp)
         /\ floor_h(matches_df[y].timestamp) = floor_h(dep.row.timestamp)
         /\ dep.near = matches_df[x].traffic_multiplier
                       + matches_df[y].traffic_multiplier

\* C9: a deploy_incident is high iff p >= 0.12, medium iff 0.07 <= p < 0.12,
\* low iff p < 0.07; a load_incident is high iff its hour's summed intensity
\* is >= 4.5, medium iff it is in [3.0, 4.5), low otherwise; the load
\* incidents of one hour share their severity.
C9_SeverityThresholds ==
    /\ (JustHandled /\ dep.emitted) =>
          LET r == rows[Len(rows)]
          IN /\ IsDeployIncident(r)
             /\ r.timestamp = dep.row.timestamp
             /\ r.severity = "high" <=> dep.p >= 120
             /\ r.severity = "medium" <=> (70 <= dep.p /\ dep.p < 120)
             /\ r.severity = "low" <=> dep.p < 70
    /\ \A r \in IncidentRows :
          IsLoadIncident(r) =>
             LET intensity == HourSum(matches_df, floor_h(r.timestamp))
             IN /\ r.severity = "high" <=> intensity >= 45
                /\ r.severity = "medium" <=> (30 <= intensity /\ intensity < 45)
                /\ r.severity = "low" <=> intensity < 30
    /\ \A r1, r2 \in IncidentRows :
          (/\ IsLoadIncident(r1)
           /\ IsLoadIncident(r2)
           /\ floor_h(r1.timestamp) = floor_h(r2.timestamp))
             => r1.severity = r2.severity

\* a deploy incident emitted with p exactly 0.12
C9_Witness ==
    /\ JustHandled /\ dep.emitted /\ dep.p = 120
    /\ rows[Len(rows)].severity = "high"

====
